---- MODULE Spec2Model ----
(***************************************************************************)
(* Model of the Brave search MCP server (src/src/server.py) and of the     *)
(* homepage finder (src/find_homepages.py).                                *)
(*                                                                         *)
(*   SpecGov  : the RateLimit dataclass driven directly by check() calls   *)
(*              under a wall clock that may move forward and backward.     *)
(*   Spec     : the two tools of BraveSearchServer run as asyncio tasks    *)
(*              that share one RateLimit and one upstream.                 *)
(*   SpecHome : get_brave_homepage applied to bounded result lists.        *)
(*                                                                         *)
(* Time is counted in ticks; one second is TicksPerUnit ticks, so that two *)
(* instants less than a second apart can lie on both sides of a window     *)
(* boundary.                                                               *)
(***************************************************************************)
EXTENDS Integers, Sequences, FiniteSets, TLC

\* ---------------------------------------------------------------- bounds
TicksPerUnit == 3
MaxTime == 5
MaxShortLimit == 2
MaxLongLimit == 3
MaxCalls == 4
MaxResults == 2

\* ------------------------------------------------------ program constants
DefaultPerSecond == 1
WebMinResults == 10
WebMaxOffset == 40
WebPageStep == 20
LocMinIds == 10
LocMaxOffset == 40
LocPageStep == 20
MaxPageOffset == 9
DefaultOffset == 0

VARIABLES
    now,          \* time.time(), in ticks
    per_second,   \* RateLimit.per_second
    per_month,    \* RateLimit.per_month
    requests,     \* RateLimit._requests: [second |-> , month |-> ]
    last_reset,   \* RateLimit._last_reset
    nCalls,       \* history: number of check() calls made
    admitted,     \* history: the times of the check() calls that returned
    winAdmits,    \* history: check() calls that returned since the last reset
    nAdmits,      \* history: check() calls that returned
    winCalls,     \* history: check() calls made since the last reset
    lastCheck,    \* history: what the last check() call saw and did
    backTo,       \* history: the time the clock last stepped back to, -1 if
                  \* it did not since the last reset
    task,         \* the running tool invocations, one record per asyncio task
    sent,         \* history: page requests sent to /web/search
    callers,      \* the tasks that invoke a tool in this run
    upstream,     \* the answers the upstream gives in this run
    name,         \* find_homepages: the company name looked up
    results,      \* find_homepages: resp.json()["web"]["results"], the urls
    hpc,          \* find_homepages: where the lookup stands
    homepage,     \* find_homepages: what get_brave_homepage returned
    p856,         \* find_homepages: what the wbgetclaims request was answered
    wikidata,     \* find_homepages: what get_wikidata_homepage returned
    swallowed,    \* history: the strategies that caught an exception
    out           \* find_homepages: out[name]

govVars == <<now, per_second, per_month, requests, last_reset,
             winAdmits, nAdmits>>

histVars == <<nCalls, admitted, winCalls, lastCheck, backTo>>

srvVars == <<task, sent, callers, upstream>>

homeVars == <<name, results, hpc, homepage, p856, wikidata, swallowed, out>>

vars == <<govVars, histVars, srvVars, homeVars>>

\* ------------------------------------------------------------- RateLimit

\* server.py:30  now - self._last_reset > 1
Elapsed(t, lr) == t - lr > TicksPerUnit

\* A reset that also clears the monthly counter.
AfterResetBoth(rq) == [second |-> 0, month |-> 0]

\* server.py:31  self._requests["second"] = 0
AfterReset(rq) == [rq EXCEPT !.second = 0]

\* The limit test with > for >=, and the limit test without the monthly quota.
LimitedOffByOne(rq) == rq.second > per_second \/ rq.month >= per_month
LimitedShortOnly(rq) == rq.second >= per_second

\* server.py:34-35  the limit test
Limited(rq) == rq.second >= per_second \/ rq.month >= per_month

\* server.py:38-39  the two increments
Incremented(rq) == [second |-> rq.second + 1, month |-> rq.month + 1]

\* check with the increments made before the limit test.
checkCountsRefused(rq, lr, t) ==
    LET reset == Elapsed(t, lr)
        rq1   == IF reset THEN AfterReset(rq) ELSE rq
        lr1   == IF reset THEN t ELSE lr
    IN  [requests   |-> Incremented(rq1),
         last_reset |-> lr1,
         reset      |-> reset,
         raised     |-> Limited(rq1)]

\* server.py:28-39  RateLimit.check as a function of the state and the clock:
\* the state it leaves, whether it reset the window, whether it raised.
check(rq, lr, t) ==
    LET reset == Elapsed(t, lr)
        rq1   == IF reset THEN AfterReset(rq) ELSE rq
        lr1   == IF reset THEN t ELSE lr
        lim   == Limited(rq1)
    IN  [requests   |-> IF lim THEN rq1 ELSE Incremented(rq1),
         last_reset |-> lr1,
         reset      |-> reset,
         raised     |-> lim]

NoCheck == [called |-> FALSE, reset |-> FALSE, raised |-> FALSE,
            before |-> [second |-> 0, month |-> 0]]

\* One call of self.rate_limit.check() at the current time: the governor's
\* fields, and the admissions of the stored window.
DoCheck ==
    LET r == check(requests, last_reset, now)
    IN  /\ requests' = r.requests
        /\ last_reset' = r.last_reset
        /\ winAdmits' = (IF r.reset THEN 0 ELSE winAdmits)
                        + (IF r.raised THEN 0 ELSE 1)
        /\ nAdmits' = nAdmits + (IF r.raised THEN 0 ELSE 1)
        /\ UNCHANGED <<per_second, per_month>>

\* The history of one check() call made at the current time, kept for the
\* governor driven on its own (SpecGov).
CallHistory ==
    LET r == check(requests, last_reset, now)
    IN  /\ nCalls' = nCalls + 1
        /\ admitted' = IF r.raised THEN admitted ELSE Append(admitted, now)
        /\ winCalls' = (IF r.reset THEN 0 ELSE winCalls) + 1
        /\ lastCheck' = [called |-> TRUE, reset |-> r.reset,
                         raised |-> r.raised, before |-> requests]
        /\ backTo' = IF r.reset THEN -1 ELSE backTo

CheckRaises == check(requests, last_reset, now).raised

\* server.py:24-26  __post_init__, for ceilings ps and pm
RateLimitInit(ps, pm) ==
    /\ per_second = ps
    /\ per_month = pm
    /\ requests = [second |-> 0, month |-> 0]
    /\ last_reset = now
    /\ nCalls = 0
    /\ admitted = <<>>
    /\ winAdmits = 0
    /\ nAdmits = 0
    /\ winCalls = 0
    /\ lastCheck = NoCheck
    /\ backTo = -1

\* ----------------------------------------------------------------- clock

ClockAdvance ==
    /\ now < MaxTime
    /\ now' = now + 1
    /\ UNCHANGED <<per_second, per_month, requests, last_reset,
                   winAdmits, nAdmits>>
    /\ UNCHANGED <<histVars, srvVars, homeVars>>

ClockBackward ==
    /\ now > 0
    /\ \E t \in 0..(now - 1) : now' = t
    /\ UNCHANGED <<per_second, per_month, requests, last_reset,
                   winAdmits, nAdmits>>
    /\ UNCHANGED <<histVars, srvVars, homeVars>>

\* The backward step with its history, for the governor driven on its own.
ClockBackwardNoted ==
    /\ now > 0
    /\ \E t \in 0..(now - 1) : now' = t
    /\ backTo' = now'
    /\ UNCHANGED <<per_second, per_month, requests, last_reset,
                   winAdmits, nAdmits>>
    /\ UNCHANGED <<nCalls, admitted, winCalls, lastCheck>>
    /\ UNCHANGED <<srvVars, homeVars>>

\* ------------------------------------------------------------ the upstream

\* What one HTTP request can come back with: a 2xx JSON payload, a non-2xx
\* status with a JSON body, a non-2xx status with a body that is not JSON, a
\* 2xx body that is not JSON, or no response at all (transport error, timeout).
Responses == {"ok", "err_json", "err_text", "malformed", "transport"}

\* The numbers of results (or location ids) a 2xx page can carry.
ItemCounts == {0, 3, 5, 10}

\* An answer: the kind of response and, for a 2xx page, its number of items,
\* whether its "query" field equals the query string of the request, and
\* whether its items are items of an earlier page of the same search. These
\* are the answers with a "query" field that is not the query string (the
\* API returns an object there, or nothing) and with items not seen before.
Answers ==
    {[resp |-> "ok", k |-> k, sameQuery |-> FALSE, repeated |-> FALSE] :
        k \in ItemCounts}
      \cup {[resp |-> e, k |-> 0, sameQuery |-> FALSE, repeated |-> FALSE] :
               e \in Responses \ {"ok"}}

\* The 2xx pages that echo the query string or repeat earlier items.
PageVariants ==
    {[resp |-> "ok", k |-> k, sameQuery |-> sq, repeated |-> rp] :
        k \in ItemCounts, sq \in BOOLEAN, rp \in BOOLEAN}

\* Items read from a response whose body parsed: data.get(..., {}).get("results", [])
\* is the result list of a 2xx page and [] for an error body.
ItemsOf(resp, k) == IF resp = "ok" THEN k ELSE 0

\* ---------------------------------------------------------------- tasks

Tasks == {1, 2}

IdleTask ==
    [pc |-> "idle", op |-> "none", fallback |-> FALSE, n |-> 0, offset |-> 0,
     outcome |-> "none", pois |-> "none", desc |-> "none",
     webFetches |-> 0, locFetches |-> 0, k |-> -1, uniform |-> TRUE,
     errSeen |-> FALSE, sentAfterErr |-> FALSE,
     offsetParam |-> {}, q |-> "none", dataQuery |-> "none", distinct |-> 0]

\* server.py:49-51  BraveSearchServer.__init__: no tool is running
ServerIdle ==
    /\ task = [t \in Tasks |-> IdleTask]
    /\ sent = 0

GovUnchanged ==
    UNCHANGED <<per_second, per_month, requests, last_reset,
                winAdmits, nAdmits, histVars>>

\* A response is in: no request of the task is in flight.
Received(r) == [r EXCEPT !.offsetParam = {}, !.q = "none"]

\* The task's record once it has finished with the outcome o: nothing is in
\* flight and the first page's payload is gone with the frame.
Finished(r, o) ==
    [Received(r) EXCEPT !.pc = "done", !.outcome = o, !.dataQuery = "none"]

\* History of one received page: the page size of the first page and whether
\* all pages so far had that size; whether some fetch failed.
Noted(r, resp, k) ==
    [Received(r) EXCEPT
              !.k = IF r.k = -1 THEN ItemsOf(resp, k) ELSE r.k,
              !.uniform = r.uniform /\ resp = "ok" /\ (r.k = -1 \/ r.k = k),
              !.errSeen = r.errSeen \/ resp # "ok"]

\* History of one page request sent without a check() of its own.
SentUnchecked(r) ==
    [r EXCEPT !.sentAfterErr = r.sentAfterErr \/ r.errSeen]

\* server.py:87-93 and 118-123: the first page of a tool. client.get raises on
\* a transport error, raise_for_status on a non-2xx status, json() on a body
\* that is not JSON.
FirstPageError(resp) ==
    CASE resp = "transport" -> "TransportError"
      [] resp \in {"err_json", "err_text"} -> "HTTPStatusError"
      [] resp = "malformed" -> "JSONDecodeError"
      [] OTHER -> "none"

\* server.py:193-197 and 135-145: a backfill page. There is no
\* raise_for_status: only client.get and json() can raise.
BackfillPageError(resp) ==
    CASE resp = "transport" -> "TransportError"
      [] resp \in {"err_text", "malformed"} -> "JSONDecodeError"
      [] OTHER -> "none"

\* ------------------------------------------------------- brave_web_search

\* The offsets a caller passes to brave_web_search: below the range, the
\* default, above the range.
OffsetInputs == {-1, DefaultOffset, 12}

\* server.py:83  min(offset, 9)
ClampOffset(offset) == IF offset < MaxPageOffset THEN offset ELSE MaxPageOffset

\* server.py:80-90  the request for the first web page: q is the caller's
\* query, offset is min(offset, 9)
FirstWebRequest(r, offset) ==
    [r EXCEPT !.pc = "web_wait", !.webFetches = 1,
              !.offsetParam = {ClampOffset(offset)}, !.q = "caller"]

\* server.py:79-90  check(), then the request for the first page is sent
WebStart(t) ==
    /\ task[t].pc = "idle"
    /\ t \in callers
    /\ DoCheck
    /\ UNCHANGED histVars
    /\ IF CheckRaises
         THEN /\ task' = [task EXCEPT ![t] =
                            Finished([@ EXCEPT !.op = "web"], "RateLimitError")]
              /\ sent' = sent
         ELSE /\ \E offset \in OffsetInputs :
                   task' = [task EXCEPT ![t] =
                              FirstWebRequest([@ EXCEPT !.op = "web"], offset)]
              /\ sent' = sent + 1
    /\ UNCHANGED <<callers, upstream, now, homeVars>>

\* server.py:87-94  the first page arrives; the handler returns the coroutine
\* object of _format_web_results without awaiting it
WebRecv(t) ==
    /\ task[t].pc = "web_wait"
    /\ \E a \in upstream :
         LET resp == a.resp
             k == a.k
             r == Noted(task[t], resp, k)
         IN  IF FirstPageError(resp) # "none"
               THEN task' = [task EXCEPT ![t] =
                                Finished(r, FirstPageError(resp))]
               ELSE task' = [task EXCEPT ![t] =
                                [r EXCEPT !.pc = "coro", !.n = k, !.offset = 0,
                                          !.dataQuery = IF a.sameQuery
                                                          THEN "same"
                                                          ELSE "other"]]
    /\ UNCHANGED <<sent, callers, upstream, now, homeVars>>
    /\ GovUnchanged

\* server.py:94  nobody awaits the returned coroutine: the tool's result is the
\* coroutine object and the body of _format_web_results never runs
CoroDrop(t) ==
    /\ task[t].pc = "coro"
    /\ task' = [task EXCEPT ![t] = Finished(@, "coroutine")]
    /\ UNCHANGED <<sent, callers, upstream, now, homeVars>>
    /\ GovUnchanged

\* The loop test with the ceiling tested by <= for <.
WebNeedsMoreLate(n, offset) == n < WebMinResults /\ offset <= WebMaxOffset

\* server.py:189-192  the loop test of _format_web_results
WebNeedsMore(n, offset) == n < WebMinResults /\ offset < WebMaxOffset

\* server.py:191-207  one turn of the loop head: either the next page is
\* requested at offset + 20, or the results are formatted and returned
WebLoop(r) ==
    IF WebNeedsMore(r.n, r.offset)
      THEN SentUnchecked([r EXCEPT !.pc = "fmt_wait",
                                   !.offset = r.offset + WebPageStep,
                                   !.webFetches = r.webFetches + 1,
                                   !.offsetParam = {r.offset + WebPageStep},
                                   !.q = IF r.dataQuery = "same" THEN "caller"
                                                                 ELSE "other"])
      ELSE Finished(r, "text")

\* server.py:183-193  the caller of the tool awaits the coroutine: the body of
\* _format_web_results runs up to its first await
CoroAwait(t) ==
    /\ task[t].pc = "coro"
    /\ task' = [task EXCEPT ![t] = WebLoop(@)]
    /\ sent' = IF task'[t].pc = "fmt_wait" THEN sent + 1 ELSE sent
    /\ UNCHANGED <<callers, upstream, now, homeVars>>
    /\ GovUnchanged

\* server.py:193-198  a backfill page arrives and is appended
FmtRecv(t) ==
    /\ task[t].pc = "fmt_wait"
    /\ \E a \in upstream :
         LET resp == a.resp
             k == a.k
             r == Noted(task[t], resp, k)
         IN  task' = [task EXCEPT ![t] =
                 IF BackfillPageError(resp) # "none"
                   THEN Finished(r, BackfillPageError(resp))
                   ELSE WebLoop([r EXCEPT !.n = r.n + ItemsOf(resp, k)])]
    /\ sent' = IF task'[t].pc = "fmt_wait" THEN sent + 1 ELSE sent
    /\ UNCHANGED <<callers, upstream, now, homeVars>>
    /\ GovUnchanged

\* ----------------------------------------------------- brave_local_search

\* server.py:107-121  check(), then the first location page is requested
LocalStart(t) ==
    /\ task[t].pc = "idle"
    /\ t \in callers
    /\ DoCheck
    /\ UNCHANGED histVars
    /\ IF CheckRaises
         THEN /\ task' = [task EXCEPT ![t] =
                            Finished([@ EXCEPT !.op = "local"], "RateLimitError")]
              /\ sent' = sent
         ELSE /\ task' = [task EXCEPT ![t] =
                            [@ EXCEPT !.pc = "loc_wait", !.op = "local",
                                      !.locFetches = 1, !.q = "caller"]]
              /\ sent' = sent + 1
    /\ UNCHANGED <<callers, upstream, now, homeVars>>

\* server.py:133  the loop test of the location backfill
LocNeedsMore(n, offset) == n < LocMinIds /\ offset < LocMaxOffset

\* server.py:133-160  one turn of the loop head: either the next location
\* page is requested at offset + 20, or the two detail requests are sent
LocLoop(r) ==
    IF LocNeedsMore(r.n, r.offset)
      THEN SentUnchecked([r EXCEPT !.pc = "locbf_wait",
                                   !.offset = r.offset + LocPageStep,
                                   !.locFetches = r.locFetches + 1,
                                   !.offsetParam = {r.offset + LocPageStep},
                                   !.q = "caller"])
      ELSE [r EXCEPT !.pc = "det_wait", !.pois = "pending", !.desc = "pending"]

\* server.py:118-132  the first location page arrives, with ids
LocalRecv(t) ==
    /\ task[t].pc = "loc_wait"
    /\ \E a \in upstream :
         /\ ~(a.resp = "ok" /\ a.k = 0)
         /\ LET resp == a.resp
                k == a.k
                r == Noted(task[t], resp, k)
            IN  task' = [task EXCEPT ![t] =
                    IF FirstPageError(resp) # "none"
                      THEN Finished(r, FirstPageError(resp))
                      ELSE LocLoop([r EXCEPT !.n = k, !.offset = 0,
                                             !.distinct = k])]
    /\ sent' = IF task'[t].pc = "locbf_wait" THEN sent + 1 ELSE sent
    /\ UNCHANGED <<callers, upstream, now, homeVars>>
    /\ GovUnchanged

\* server.py:125-129 and 79-90  the first location page arrives without ids:
\* brave_web_search(query, 20) is awaited, which calls check() again and then
\* requests the first web page
LocalFallback(t) ==
    /\ task[t].pc = "loc_wait"
    /\ \E a \in upstream : a.resp = "ok" /\ a.k = 0
    /\ DoCheck
    /\ UNCHANGED histVars
    /\ LET r == [Noted(task[t], "ok", 0) EXCEPT !.fallback = TRUE, !.k = -1]
       IN  IF CheckRaises
             THEN /\ task' = [task EXCEPT ![t] = Finished(r, "RateLimitError")]
                  /\ sent' = sent
             ELSE /\ task' = [task EXCEPT ![t] =
                                FirstWebRequest(r, DefaultOffset)]
                  /\ sent' = sent + 1
    /\ UNCHANGED <<callers, upstream, now, homeVars>>

\* server.py:135-146  a backfill location page arrives and its ids are
\* appended by list.extend; the ids of the page are new ones, or ids that
\* the list holds already
LocalBackfillRecv(t) ==
    /\ task[t].pc = "locbf_wait"
    /\ \E a \in upstream :
         LET resp == a.resp
             k == a.k
             r == Noted(task[t], resp, k)
             fresh == IF a.repeated /\ ItemsOf(resp, k) <= r.distinct
                        THEN 0 ELSE ItemsOf(resp, k)
         IN  task' = [task EXCEPT ![t] =
                 IF BackfillPageError(resp) # "none"
                   THEN Finished(r, BackfillPageError(resp))
                   ELSE LocLoop([r EXCEPT !.n = r.n + ItemsOf(resp, k),
                                          !.distinct = r.distinct + fresh])]
    /\ sent' = IF task'[t].pc = "locbf_wait" THEN sent + 1 ELSE sent
    /\ UNCHANGED <<callers, upstream, now, homeVars>>
    /\ GovUnchanged

\* -------------------------------------------------- _get_location_details

\* server.py:170-173  both responses are in: json() of each, then the pair is
\* returned and formatted (server.py:152)
DetailsJoined(r) ==
    IF r.pois \in {"err_text", "malformed"} \/ r.desc \in {"err_text", "malformed"}
      THEN Finished(r, "JSONDecodeError")
      ELSE Finished(r, "text")

\* server.py:160-169  asyncio.gather: an exception of one request is raised to
\* the caller at once; otherwise the caller resumes when both are in
DetailsStep(r) ==
    IF r.pois = "transport" \/ r.desc = "transport"
      THEN Finished(r, "TransportError")
      ELSE IF r.pois # "pending" /\ r.desc # "pending"
             THEN DetailsJoined(r)
             ELSE r

\* server.py:161-164  the response of /local/pois arrives
PoisRecv(t) ==
    /\ task[t].pc = "det_wait"
    /\ task[t].pois = "pending"
    /\ \E a \in upstream :
         task' = [task EXCEPT ![t] = DetailsStep([@ EXCEPT !.pois = a.resp])]
    /\ UNCHANGED <<sent, callers, upstream, now, homeVars>>
    /\ GovUnchanged

\* server.py:165-168  the response of /local/descriptions arrives
DescRecv(t) ==
    /\ task[t].pc = "det_wait"
    /\ task[t].desc = "pending"
    /\ \E a \in upstream :
         task' = [task EXCEPT ![t] = DetailsStep([@ EXCEPT !.desc = a.resp])]
    /\ UNCHANGED <<sent, callers, upstream, now, homeVars>>
    /\ GovUnchanged

\* ------------------------------------------------------ find_homepages.py

\* Strings that are searched or compared by content are sequences of
\* one-character strings.

\* find_homepages.py:11
BLACKLIST ==
    { <<"w", "i", "k", "i", "p", "e", "d", "i", "a", ".", "o", "r", "g">>,
      <<"f", "a", "c", "e", "b", "o", "o", "k", ".", "c", "o", "m">>,
      <<"t", "w", "i", "t", "t", "e", "r", ".", "c", "o", "m">>,
      <<"l", "i", "n", "k", "e", "d", "i", "n", ".", "c", "o", "m">> }

\* str.lower on one character, then on a string
LowerChar(c) ==
    CASE c = "A" -> "a" [] c = "B" -> "b" [] c = "S" -> "s" [] c = "U" -> "u"
      [] OTHER -> c

Lower(w) == [i \in 1..Len(w) |-> LowerChar(w[i])]

\* Python's  sub in s  on strings
Contains(sub, w) ==
    \E i \in 0..(Len(w) - Len(sub)) : SubSeq(w, i + 1, i + Len(sub)) = sub

\* The result URLs of the model: the text of the URL and the host as it is
\* written in it. NoUrl is a result without a "url" field (r.get("url", "")).
UrlAcme == [text |-> "https://acme.com", host |-> <<"a", "c", "m", "e", ".", "c", "o", "m">>]
UrlAcmeUpper == [text |-> "https://Acme.com/", host |-> <<"A", "c", "m", "e", ".", "c", "o", "m">>]
UrlWikiArticle == [text |-> "https://en.wikipedia.org/wiki/Acme", host |-> <<"e", "n", ".", "w", "i", "k", "i", "p", "e", "d", "i", "a", ".", "o", "r", "g">>]
UrlWikiRoot == [text |-> "https://wikipedia.org/", host |-> <<"w", "i", "k", "i", "p", "e", "d", "i", "a", ".", "o", "r", "g">>]
UrlNews == [text |-> "https://news.example.com/acme-story", host |-> <<"n", "e", "w", "s", ".", "e", "x", "a", "m", "p", "l", "e", ".", "c", "o", "m">>]
UrlLookalike == [text |-> "https://wikipedia.org.acme.com/", host |-> <<"w", "i", "k", "i", "p", "e", "d", "i", "a", ".", "o", "r", "g", ".", "a", "c", "m", "e", ".", "c", "o", "m">>]
NoUrl == [text |-> "", host |-> <<>>]

Urls == {UrlAcme, UrlAcmeUpper, UrlWikiArticle, UrlWikiRoot, UrlNews,
         UrlLookalike, NoUrl}

Companies == {<<"A", "c", "m", "e">>, <<"U", "B", "S">>}

\* find_homepages.py:14  urlparse(url).hostname: the host in lower case
\* (None for a URL without a host, which compares like "" below)
hostname(url) == Lower(url.host)

\* find_homepages.py:13-19
is_official_candidate(url, company) ==
    LET host == hostname(url)
    IN  IF \E domain \in BLACKLIST : Contains(domain, host)
          THEN FALSE
          ELSE Contains(Lower(company), Lower(host))

\* find_homepages.py:39  urlparse(url).hostname not in BLACKLIST
SecondPassAccepts(url) == hostname(url) \notin BLACKLIST

MinOf(S) == CHOOSE i \in S : \A j \in S : i <= j

NoneValue == [text |-> "None", host |-> <<>>]

\* find_homepages.py:30-43  the two passes over the result list, in rank order
get_brave_homepage(company, res) ==
    LET pass1 == {i \in 1..Len(res) : is_official_candidate(res[i], company)}
        pass2 == {i \in 1..Len(res) : SecondPassAccepts(res[i])}
    IN  IF pass1 # {} THEN res[MinOf(pass1)]
        ELSE IF pass2 # {} THEN res[MinOf(pass2)]
        ELSE NoneValue

\* The result lists of at most MaxResults results.
ResultLists == UNION {[1..n -> Urls] : n \in 0..MaxResults}

\* Markers: a function that was not called, an entry of out not assigned, an
\* exception leaving a function.
NotCalled == [text |-> "not called", host |-> <<>>]
Unset == [text |-> "unset", host |-> <<>>]
Raised == [text |-> "Traceback", host |-> <<>>]

\* find_homepages.py:83  the literal written when both strategies gave nothing
NotFound == [text |-> "Not found", host |-> <<>>]

\* Python truth of  str | None : None and "" are false
Truthy(url) == url # NoneValue /\ url.text # ""

\* find_homepages.py:41-43  except Exception: pass; return None
BraveExcept == NoneValue

WikidataExceptRaises == Raised

\* find_homepages.py:73-74  except Exception: return None
WikidataExcept == NoneValue

NeedsKnowledgeBaseAlways(url) == TRUE

\* find_homepages.py:81  if not url:
NeedsKnowledgeBase(url) == ~Truthy(url)

\* find_homepages.py:83  url or "Not found"; an exception that left a
\* strategy would leave the loop of lines 79-83 before the assignment
MainAssigns(url) ==
    IF url = Raised
      THEN [hpc |-> "crashed", out |-> Unset]
      ELSE [hpc |-> "resolved", out |-> IF Truthy(url) THEN url ELSE NotFound]

\* What wbgetclaims can answer for P856: no claim, a claim without datavalue
\* (snaktype novalue), or a claim with a value.
NoClaims == [text |-> "no claims", host |-> <<>>]
NoDatavalue == [text |-> "no datavalue", host |-> <<>>]
P856Answers == {NoClaims, NoDatavalue} \cup Urls

\* find_homepages.py:69-72  claims[0]["mainsnak"]["datavalue"]["value"]; the
\* KeyError of a claim without datavalue goes to the except clause
P856Value(ans) ==
    IF ans = NoClaims THEN NoneValue
    ELSE IF ans = NoDatavalue THEN WikidataExcept
    ELSE ans

HomeIdle ==
    /\ name = <<>>
    /\ results = <<>>
    /\ hpc = "idle"
    /\ homepage = NoneValue
    /\ p856 = NotCalled
    /\ wikidata = NotCalled
    /\ swallowed = {}
    /\ out = Unset

\* find_homepages.py:28-40  the search answered with a 2xx JSON payload
BraveAnswers ==
    /\ hpc = "start"
    /\ homepage' = get_brave_homepage(name, results)
    /\ hpc' = "brave_done"
    /\ UNCHANGED <<name, results, p856, wikidata, swallowed, out>>
    /\ UNCHANGED <<govVars, histVars, srvVars>>

\* find_homepages.py:27-43  httpx.get or raise_for_status or json() raised:
\* the exception is swallowed and None is returned
BraveFails ==
    /\ hpc = "start"
    /\ homepage' = BraveExcept
    /\ hpc' = "brave_failed"
    /\ swallowed' = swallowed \cup {"brave"}
    /\ UNCHANGED <<name, results, p856, wikidata, out>>
    /\ UNCHANGED <<govVars, histVars, srvVars>>

\* find_homepages.py:81-83  the search gave a URL: it is written to out and
\* get_wikidata_homepage is not called
MainKeepsBrave ==
    /\ hpc \in {"brave_done", "brave_failed"}
    /\ ~NeedsKnowledgeBase(homepage)
    /\ hpc' = MainAssigns(homepage).hpc
    /\ out' = MainAssigns(homepage).out
    /\ UNCHANGED <<name, results, homepage, p856, wikidata, swallowed>>
    /\ UNCHANGED <<govVars, histVars, srvVars>>

\* get_wikidata_homepage returned: lines 82-83 of the caller
WikidataReturns(url) ==
    /\ wikidata' = url
    /\ hpc' = MainAssigns(url).hpc
    /\ out' = MainAssigns(url).out

\* find_homepages.py:81-82, 54-59  get_wikidata_homepage is called and its
\* wbsearchentities request is answered with a 2xx JSON payload: with no
\* entity it returns None, with one it sends the wbgetclaims request
WikidataSearchAnswers ==
    /\ hpc \in {"brave_done", "brave_failed"}
    /\ NeedsKnowledgeBase(homepage)
    /\ \E found \in BOOLEAN :
         IF found
           THEN /\ hpc' = "claims_wait"
                /\ UNCHANGED <<wikidata, out>>
           ELSE WikidataReturns(NoneValue)
    /\ UNCHANGED <<name, results, homepage, p856, swallowed>>
    /\ UNCHANGED <<govVars, histVars, srvVars>>

\* find_homepages.py:54-56, 73-74  the wbsearchentities request raised
WikidataSearchFails ==
    /\ hpc \in {"brave_done", "brave_failed"}
    /\ NeedsKnowledgeBase(homepage)
    /\ swallowed' = swallowed \cup {"wikidata"}
    /\ WikidataReturns(WikidataExcept)
    /\ UNCHANGED <<name, results, homepage, p856>>
    /\ UNCHANGED <<govVars, histVars, srvVars>>

\* find_homepages.py:67-72  the wbgetclaims request is answered with a 2xx
\* JSON payload
WikidataClaimsAnswers ==
    /\ hpc = "claims_wait"
    /\ \E ans \in P856Answers :
         /\ p856' = ans
         /\ swallowed' = IF ans = NoDatavalue THEN swallowed \cup {"wikidata"}
                                              ELSE swallowed
         /\ WikidataReturns(P856Value(ans))
    /\ UNCHANGED <<name, results, homepage>>
    /\ UNCHANGED <<govVars, histVars, srvVars>>

\* find_homepages.py:67-68, 73-74  the wbgetclaims request raised
WikidataClaimsFails ==
    /\ hpc = "claims_wait"
    /\ swallowed' = swallowed \cup {"wikidata"}
    /\ WikidataReturns(WikidataExcept)
    /\ UNCHANGED <<name, results, homepage, p856>>
    /\ UNCHANGED <<govVars, histVars, srvVars>>

\* ------------------------------------------------------ Spec: the server

\* The runs: one caller against an upstream that may give any answer to any
\* request, or all callers at once against an upstream that gives one of two
\* answers to every request.
Configs ==
    {[callers |-> {1}, upstream |-> Answers \cup PageVariants]}
      \cup {[callers |-> Tasks, upstream |-> {a, b}] : a \in Answers, b \in Answers}

\* server.py:49  RateLimit(): per_second = 1; the monthly ceiling of 2000 is
\* scaled down to 1..MaxLongLimit so that its exhaustion is reached.
Init ==
    /\ now = 0
    /\ \E pm \in 1..MaxLongLimit : RateLimitInit(DefaultPerSecond, pm)
    /\ ServerIdle
    /\ \E c \in Configs : callers = c.callers /\ upstream = c.upstream
    /\ HomeIdle

Next ==
    \/ ClockAdvance
    \/ ClockBackward
    \/ \E t \in Tasks :
         \/ WebStart(t)
         \/ WebRecv(t)
         \/ CoroDrop(t)
         \/ CoroAwait(t)
         \/ FmtRecv(t)
         \/ LocalStart(t)
         \/ LocalRecv(t)
         \/ LocalFallback(t)
         \/ LocalBackfillRecv(t)
         \/ PoisRecv(t)
         \/ DescRecv(t)

Spec == Init /\ [][Next]_vars

\* ------------------------------- SpecLive: the server, every await returns

\* What a started tool invocation does next: a response (or the timeout of
\* httpx.AsyncClient(timeout=30.0), a transport error) ends each await of
\* client.get, and the returned coroutine is awaited or let go.
TaskStep(t) ==
    \/ WebRecv(t)
    \/ CoroDrop(t)
    \/ CoroAwait(t)
    \/ FmtRecv(t)
    \/ LocalRecv(t)
    \/ LocalFallback(t)
    \/ LocalBackfillRecv(t)
    \/ PoisRecv(t)
    \/ DescRecv(t)

\* The runs: one caller against an upstream that may give any of Answers to
\* any request, or all callers against an upstream that gives the same
\* answer to every request.
LiveConfigs ==
    {[callers |-> {1}, upstream |-> Answers]}
      \cup {[callers |-> Tasks, upstream |-> {a}] : a \in Answers}

InitLive ==
    /\ now = 0
    /\ \E pm \in 1..MaxLongLimit : RateLimitInit(DefaultPerSecond, pm)
    /\ ServerIdle
    /\ \E c \in LiveConfigs : callers = c.callers /\ upstream = c.upstream
    /\ HomeIdle

SpecLive ==
    InitLive /\ [][Next]_vars /\ \A t \in Tasks : WF_vars(TaskStep(t))

\* ------------------------------------------------- SpecGov: the governor

InitGov ==
    /\ now \in 0..1
    /\ \E ps \in 0..MaxShortLimit, pm \in 0..MaxLongLimit : RateLimitInit(ps, pm)
    /\ ServerIdle
    /\ callers = {}
    /\ upstream = {}
    /\ HomeIdle

Admit ==
    /\ nCalls < MaxCalls
    /\ DoCheck
    /\ CallHistory
    /\ UNCHANGED now
    /\ UNCHANGED <<srvVars, homeVars>>

NextGov == ClockAdvance \/ ClockBackwardNoted \/ Admit

SpecGov == InitGov /\ [][NextGov]_vars

\* ------------------------------------------- SpecHome: the homepage finder

InitHome ==
    /\ now = 0
    /\ RateLimitInit(DefaultPerSecond, 1)
    /\ ServerIdle
    /\ callers = {}
    /\ upstream = {}
    /\ name \in Companies
    /\ results \in ResultLists
    /\ hpc = "start"
    /\ homepage = NoneValue
    /\ p856 = NotCalled
    /\ wikidata = NotCalled
    /\ swallowed = {}
    /\ out = Unset

NextHome ==
    \/ BraveAnswers
    \/ BraveFails
    \/ MainKeepsBrave
    \/ WikidataSearchAnswers
    \/ WikidataSearchFails
    \/ WikidataClaimsAnswers
    \/ WikidataClaimsFails

SpecHome == InitHome /\ [][NextHome]_vars

\* --------------------------------------------------- claims on the server

ErrorOutcomes ==
    {"RateLimitError", "HTTPStatusError", "TransportError", "JSONDecodeError"}

\* C1: whatever the interleaving of the callers, the admissions of one stored
\* window never exceed per_second and the admissions in total never exceed
\* per_month: no two callers pass the check for the same slot.
C1_AtomicAdmission ==
    /\ winAdmits <= per_second
    /\ nAdmits <= per_month

\* C1 witness: two callers raced for the one slot of a window; one holds it
\* and waits for its page, the other was refused.
C1_Witness ==
    \E t1 \in Tasks, t2 \in Tasks :
        /\ t1 # t2
        /\ task[t1].pc \in {"web_wait", "loc_wait"}
        /\ task[t2].pc = "done" /\ task[t2].outcome = "RateLimitError"
        /\ winAdmits = per_second
        /\ nAdmits < per_month

\* C5: the page requests sent to the search upstream never outnumber the
\* successful check() calls (each request is preceded by its own admission).
C5_EveryRequestAdmitted == sent <= nAdmits

\* The pages that fit under the offset ceiling of the web aggregation.
WebPagesUnderCeiling == 1 + WebMaxOffset \div WebPageStep

CeilDiv(a, b) == (a + b - 1) \div b

\* C6: a web aggregation that ends without error against an upstream giving
\* k >= 1 results per page has sent exactly ceil(WebMinResults / k) page
\* requests when that many pages fit under the ceiling, and it holds fewer
\* than WebMinResults results only if the offset ceiling was reached.
C6_FloorFetchCount ==
    \A t \in Tasks :
        (/\ task[t].pc = "done"
         /\ task[t].outcome \in {"text", "coroutine"}
         /\ task[t].webFetches >= 1
         /\ ~task[t].errSeen)
        => /\ (/\ task[t].uniform /\ task[t].k >= 1
               /\ CeilDiv(WebMinResults, task[t].k) <= WebPagesUnderCeiling)
                 => task[t].webFetches = CeilDiv(WebMinResults, task[t].k)
           /\ task[t].n < WebMinResults => task[t].offset >= WebMaxOffset

\* C7: once a page fetch of an aggregation has failed, no further page is
\* requested and the operation ends with an error, not with a result.
C7_AbortOnFirstError ==
    \A t \in Tasks :
        /\ ~task[t].sentAfterErr
        /\ (task[t].pc = "done" /\ task[t].errSeen)
              => task[t].outcome \in ErrorOutcomes

\* The location pages up to the offset ceiling.
LocPagesUnderCeiling == 1 + LocMaxOffset \div LocPageStep

\* C8: the web fallback of a local search is taken only once every location
\* page up to the ceiling was fetched without yielding an id, and the
\* fallback itself does not fail the operation with a rate-limit error.
C8_FallbackAfterExhaustion ==
    \A t \in Tasks :
        task[t].fallback
          => /\ task[t].locFetches = LocPagesUnderCeiling
             /\ task[t].outcome # "RateLimitError"

\* C9: the detail fetch returns its pair only if both responses were
\* successful; if either request failed the call fails.
C9_DetailsBothOrNothing ==
    \A t \in Tasks :
        (task[t].pc = "done" /\ task[t].pois # "none"
            /\ task[t].outcome = "text")
          => (task[t].pois = "ok" /\ task[t].desc = "ok")

\* ------------------------------------------------- claims on the governor

\* The sets of admitted calls that all lie less than one second apart.
WithinOneSecond(S) ==
    \A i \in S, j \in S :
        admitted[i] - admitted[j] < TicksPerUnit

\* C2, as stated: whatever second one looks at, stored window or not, at most
\* per_second calls made within it are admitted (the call after the first
\* per_second ones fails).
C2_AnySecondOriginal ==
    \A S \in SUBSET (1..Len(admitted)) :
        WithinOneSecond(S) => Cardinality(S) <= per_second

\* C2, amended: within one stored window (the calls made since the window was
\* last reset, or since construction) the k-th call is admitted iff
\* k <= per_second and the monthly quota is not used up.
C2_StoredWindow ==
    lastCheck.called =>
        (lastCheck.raised <=>
            (winCalls > per_second \/ lastCheck.before.month >= per_month))

\* C2 witness: a window in which per_second >= 2 calls were admitted and one
\* more call was refused by the short limit alone.
C2_Witness ==
    /\ lastCheck.called /\ lastCheck.raised /\ ~lastCheck.reset
    /\ per_second >= 2
    /\ winCalls = per_second + 1
    /\ winAdmits = per_second
    /\ lastCheck.before.month < per_month

\* C3: the monthly counter never decreases, it counts exactly the admitted
\* calls, never passes per_month, and once it has reached per_month every
\* check() raises and admits nothing, window reset or not.
C3_LongQuota ==
    [][ /\ requests'.month >= requests.month
        /\ Len(admitted') = requests'.month
        /\ requests'.month <= per_month
        /\ (nCalls' = nCalls + 1 /\ requests.month >= per_month)
              => (lastCheck'.raised /\ admitted' = admitted
                  /\ requests'.month = requests.month) ]_vars

\* C3 witness: the monthly quota is used up by calls of different windows and
\* a call that found a fresh short window was refused.
C3_Witness ==
    /\ lastCheck.called /\ lastCheck.raised /\ lastCheck.reset
    /\ per_second >= 1 /\ per_month >= 2
    /\ lastCheck.before.month = per_month
    /\ Len(admitted) = per_month
    /\ admitted[1] # admitted[2]

\* C4: a check() made more than one second after _last_reset starts a new
\* window at now whose count is only this call's own admission (the prior
\* count is dropped), and the monthly counter moves by that admission alone.
C4_WindowReset ==
    [][ (nCalls' = nCalls + 1 /\ now - last_reset > TicksPerUnit)
          => /\ last_reset' = now
             /\ lastCheck'.reset
             /\ requests'.second = (IF lastCheck'.raised THEN 0 ELSE 1)
             /\ requests'.month = requests.month + requests'.second ]_vars

\* C4 witness: a reset that dropped a full short counter.
C4_Witness ==
    /\ lastCheck.called /\ lastCheck.reset
    /\ per_second >= 2
    /\ lastCheck.before.second = per_second
    /\ last_reset = now
    /\ requests.second <= 1

\* ---------------------------------------------- claims on the homepage finder

\* A host is denied when it is a denied domain or a subdomain of one.
EndsWith(w, suffix) ==
    Len(w) >= Len(suffix)
      /\ SubSeq(w, Len(w) - Len(suffix) + 1, Len(w)) = suffix

DeniedHost(host) ==
    \E domain \in BLACKLIST :
        host = domain \/ EndsWith(host, <<".">> \o domain)

\* C10: the search-engine strategy never returns a URL whose host is denied,
\* by exact or by suffix match, whichever pass selected it.
C10_NeverDenied ==
    (hpc = "brave_done" /\ homepage # NoneValue)
      => ~DeniedHost(hostname(homepage))

\* The name-match predicate: the host contains the entity name, whatever the
\* case of either.
NameInHost(company, url) == Contains(Lower(company), hostname(url))

\* The results that are candidates of pass 1, and of pass 2, by rank.
Pass1Candidates(company, res) ==
    {i \in 1..Len(res) :
        ~DeniedHost(hostname(res[i])) /\ NameInHost(company, res[i])}

Pass2Candidates(res) == {i \in 1..Len(res) : ~DeniedHost(hostname(res[i]))}

\* C11: the strategy returns the highest-ranked result whose host is not
\* denied and contains the name, if there is one; otherwise the
\* highest-ranked result whose host is not denied; otherwise nothing.
C11_TwoPassSelection ==
    hpc = "brave_done" =>
        homepage =
            IF Pass1Candidates(name, results) # {}
              THEN results[MinOf(Pass1Candidates(name, results))]
            ELSE IF Pass2Candidates(results) # {}
              THEN results[MinOf(Pass2Candidates(results))]
            ELSE NoneValue

\* C12: the knowledge base is asked only after the search gave no candidate
\* (nothing, or a result without a URL); a candidate of the search is what
\* is written to out; and when the search gave none and the knowledge base
\* holds a non-empty P856 value, out is that value, whatever its host.
C12_FirstSuccessWins ==
    /\ (hpc = "claims_wait" \/ wikidata # NotCalled) => ~Truthy(homepage)
    /\ (hpc = "resolved" /\ Truthy(homepage)) =>
           (out = homepage /\ wikidata = NotCalled /\ p856 = NotCalled)
    /\ (hpc = "resolved" /\ ~Truthy(homepage) /\ p856 \in Urls \ {NoUrl}) =>
           out = p856

\* C12 witness: the search gave nothing and the knowledge base held a URL
\* on a denied host, without the name in it: that URL is the outcome.
C12_Witness ==
    /\ hpc = "resolved"
    /\ ~Truthy(homepage)
    /\ p856 = UrlWikiRoot
    /\ out = UrlWikiRoot

\* C13: the lookup never ends in an exception; a strategy that caught one
\* returned None, which sends the lookup on to the next strategy; the
\* outcome is a URL or "Not found", and it is "Not found" when neither
\* strategy gave a candidate.
C13_NeverFails ==
    /\ hpc # "crashed"
    /\ hpc = "brave_failed" => (homepage = NoneValue /\ NeedsKnowledgeBase(homepage))
    /\ hpc = "resolved" =>
          /\ out \in (Urls \ {NoUrl}) \cup {NotFound}
          /\ (~Truthy(homepage) /\ ~Truthy(wikidata)) => out = NotFound
          /\ ("wikidata" \in swallowed) => (wikidata = NoneValue /\ out = NotFound)

\* C13 witness: both strategies caught an exception and the outcome is
\* "Not found".
C13_Witness ==
    /\ hpc = "resolved"
    /\ swallowed = {"brave", "wikidata"}
    /\ out = NotFound

\* C14: a check() call that raises RateLimitError leaves the monthly counter
\* as it was and does not increment the per-second counter, which is 0 if
\* the call reset the window and as it was otherwise.
C14_RefusalCountsNothing ==
    [][(nCalls' = nCalls + 1 /\ lastCheck'.raised) =>
          /\ requests'.month = requests.month
          /\ requests'.second = (IF lastCheck'.reset THEN 0 ELSE requests.second)
          /\ nAdmits' = nAdmits]_vars

\* C14 witness: a call found a used window expired, reset it, and was
\* refused on the monthly quota.
C14_Witness ==
    /\ lastCheck.called /\ lastCheck.raised /\ lastCheck.reset
    /\ lastCheck.before.second >= 1
    /\ requests.second = 0
    /\ requests.month = lastCheck.before.month

\* C19: after a backward step of the clock, a check() call made when the
\* clock has since advanced by more than one time-unit resets the window.
C19_BackwardClockResets ==
    [][(nCalls' = nCalls + 1 /\ backTo >= 0 /\ now - backTo > TicksPerUnit)
          => lastCheck'.reset]_vars

\* C15: every started tool invocation ends, whatever the pages hold; a
\* backfill page is requested only while the floor is unmet and the ceiling
\* not reached, so an aggregation requests at most 1 + 40 / 20 pages; and
\* no error comes from a floor unmet at the ceiling: an invocation that
\* ends in an error was refused by check() or had a request fail.
C15_AggregationTerminates ==
    /\ [](\A t \in Tasks :
            /\ task[t].webFetches <= 1 + WebMaxOffset \div WebPageStep
            /\ task[t].locFetches <= 1 + LocMaxOffset \div LocPageStep
            /\ task[t].pc = "fmt_wait" =>
                  (task[t].n < WebMinResults /\ task[t].offset <= WebMaxOffset)
            /\ task[t].pc = "locbf_wait" =>
                  (task[t].n < LocMinIds /\ task[t].offset <= LocMaxOffset)
            /\ task[t].outcome \in ErrorOutcomes =>
                  \/ task[t].outcome = "RateLimitError"
                  \/ task[t].errSeen
                  \/ task[t].pois # "none")
    /\ \A t \in Tasks : (task[t].pc # "idle") ~> (task[t].pc = "done")

\* C15 witness: a web aggregation fetched three pages, reached the ceiling
\* with the floor unmet, and returned the text of what it had.
C15_Witness ==
    \E t \in Tasks :
        /\ task[t].pc = "done" /\ task[t].outcome = "text"
        /\ task[t].webFetches = 3
        /\ task[t].offset = WebMaxOffset
        /\ task[t].n < WebMinResults

\* A detail fetch that failed: a transport error or a non-2xx status.
FailedFetch == {"transport", "err_json", "err_text"}

\* C16: in the join of the two detail fetches, as soon as one fetch has
\* failed the caller has the failure, whether or not the other fetch has
\* completed; the caller gets the pair only when both succeeded.
C16_FailureNotMasked ==
    \A t \in Tasks :
        /\ (task[t].pois \in FailedFetch \/ task[t].desc \in FailedFetch) =>
               (task[t].pc = "done" /\ task[t].outcome \in ErrorOutcomes)
        /\ (task[t].pc = "done" /\ task[t].outcome = "text"
               /\ task[t].pois # "none") =>
               (task[t].pois = "ok" /\ task[t].desc = "ok")

\* C17: every offset parameter sent to /web/search lies in 0..9, for the
\* first page of a web search whatever offset the caller passed, and for
\* the backfill pages of both loops.
C17_OffsetsInRange ==
    \A t \in Tasks :
        \A o \in task[t].offsetParam : 0 <= o /\ o <= MaxPageOffset

\* C18: the location backfill loop is left for the detail requests only
\* with the floor of distinct ids held or the ceiling reached, and the
\* quantity it compared counts every id once.
C18_FloorCountsDistinct ==
    \A t \in Tasks :
        task[t].pois # "none" =>
            /\ task[t].n = task[t].distinct
            /\ task[t].distinct >= LocMinIds \/ task[t].offset >= LocMaxOffset

\* C20: every page request of a web aggregation carries the query the
\* caller passed.
C20_CallerQueryOnEveryPage ==
    \A t \in Tasks : task[t].q \in {"none", "caller"}

====
